---- MODULE Spec2Model ----
(***************************************************************************)
(* A model of pams_environments' stylized-facts engine                      *)
(* (src/stylized_facts/stylized_facts_checker.py): the transaction-count   *)
(* resampling of one synthetic session, the batch homogeneity gate, the    *)
(* return computation with its memoized batched array, and the estimators' *)
(* batched and per-series paths; the tick ingestion of an instance         *)
(* (_resample_real, _resample_art, preprocess_ohlcv_df) with its session   *)
(* boundaries and its random stream; and the rollout buffer of             *)
(* src/drl_algos/buffers.py.                                               *)
(*                                                                         *)
(* Floats are modelled exactly: a proportion of a reference curve is a     *)
(* numerator over CurveDen, a log-return is kept as the pair of prices it  *)
(* is computed from. The proportions preprocess_ohlcv_df derives are kept  *)
(* in fixed point, rounded to the nearest 1/Unit. An object that a         *)
(* specification does not use is <<>> throughout its runs.                 *)
(***************************************************************************)
EXTENDS Integers, Sequences, FiniteSets, TLC

VARIABLES
    \* ---- _resample_art_per_session
    session_len,            \* len(df): the session's event count
    curve,                  \* the selected column of the reference curve table
    castMode,               \* what the out-of-range float -> uint8 cast yields
    cumsum_transactions,    \* the integer cut points (line 218)
    session_bars,           \* the bars built by the loop (lines 226-242)
    rpc,                    \* "start" before the call, "done" after it
    \* ---- the estimators of one StylizedFactsChecker instance
    ohlcv_dfs,              \* self.ohlcv_dfs
    return_arr,             \* self.return_arr: <<>> is None, <<arr>> is an array
    calc_count,             \* completed assignments to self.return_arr
    last,                   \* the outcome of the last estimator call
    \* ---- _calc_hill_indices called directly
    hill_in,                \* [arr, cut]: the array, and cut_off_th as <<num, den>>
    hill_out,               \* the outcome of the call
    \* ---- tick ingestion of one StylizedFactsChecker instance
    checker,                \* its boundary fields, random stream and current frame
    \* ---- two instances built with one seed
    twins,                  \* the seed, the tick files, each instance's progress
    \* ---- _calc_kurtosis called directly
    kurt,                   \* [in, out]: the array passed and the outcome
    \* ---- one RolloutBuffer4IPPO (src/drl_algos/buffers.py)
    buffer                  \* its fields

resampleVars == <<session_len, curve, castMode, cumsum_transactions, session_bars, rpc>>
estimatorVars == <<ohlcv_dfs, return_arr, calc_count, last>>
hillVars == <<hill_in, hill_out>>
objectVars == <<checker, twins, kurt, buffer>>
vars == <<resampleVars, estimatorVars, hillVars, objectVars>>

----------------------------------------------------------------------------
(* Bounds of the model *)

MaxSession == 258       \* largest session event count
MaxBars == 3            \* longest reference curve
CurveDen == 4           \* curve proportions are k / CurveDen, k in 0..CurveDen

(* Program constants *)

UInt8Range == 256       \* np.uint8 holds 0..255

----------------------------------------------------------------------------
(* Helpers *)

Min(a, b) == IF a <= b THEN a ELSE b

RECURSIVE SumSeq(_)
SumSeq(s) == IF s = <<>> THEN 0 ELSE Head(s) + SumSeq(Tail(s))

IsNonDecreasing(s) == \A i \in 1..(Len(s) - 1) : s[i] <= s[i + 1]

----------------------------------------------------------------------------
(* _resample_art_per_session *)

\* A reference curve: cumulative proportions in [0,1], non-decreasing.
Curves ==
    {c \in UNION {[1..k -> 0..CurveDen] : k \in 1..MaxBars} : IsNonDecreasing(c)}

\* line 217: len(df) * cumsum_scaled_transactions_arr, a float array; element
\* i is the rational n * c[i] / CurveDen, kept as its numerator.
ScaleCurve(n, c) == [i \in 1..Len(c) |-> n * c[i]]

\* line 218: .astype(np.uint8) of one float. The cast truncates toward zero.
\* A value above 255 is outside uint8: the C cast is undefined there, and a
\* build yields either the low 8 bits of the integer or the saturated 255.
AsUInt8(num, mode) ==
    LET t == num \div CurveDen
    IN  IF t < UInt8Range THEN t
        ELSE IF mode = "wrap" THEN t % UInt8Range
        ELSE UInt8Range - 1

CutPoints(n, c, mode) ==
    LET scaled == ScaleCurve(n, c)
    IN  [i \in 1..Len(c) |-> AsUInt8(scaled[i], mode)]

\* lines 227-241: cur_df = df.iloc[pre:cur, :] folded into one bar. A slice
\* is clamped to the frame and is empty when cur <= pre. The bar keeps the
\* positions [first, stop) of the events folded into it.
MakeBar(n, pre, cur) ==
    LET lo == Min(pre, n)
        hi == Min(cur, n)
        cnt == IF lo < hi THEN hi - lo ELSE 0
    IN  [first |-> lo, stop |-> lo + cnt, num_events |-> cnt, empty |-> (cnt = 0)]

\* lines 225-242: the loop over the cut points, num_pre_transactions
\* carried from one bar to the next.
RECURSIVE FoldBars(_, _, _, _)
FoldBars(n, cuts, i, pre) ==
    IF i > Len(cuts) THEN <<>>
    ELSE <<MakeBar(n, pre, cuts[i])>> \o FoldBars(n, cuts, i + 1, cuts[i])

InitResample ==
    /\ session_len \in 0..MaxSession
    /\ curve \in Curves
    /\ castMode \in {"wrap", "saturate"}
    /\ cumsum_transactions = <<>>
    /\ session_bars = <<>>
    /\ rpc = "start"

IdleResample ==
    /\ session_len = 0
    /\ curve = <<CurveDen>>
    /\ castMode = "wrap"
    /\ cumsum_transactions = <<>>
    /\ session_bars = <<>>
    /\ rpc = "start"

ResampleArtPerSession ==
    /\ rpc = "start"
    /\ cumsum_transactions' = CutPoints(session_len, curve, castMode)
    /\ session_bars' = FoldBars(session_len, cumsum_transactions', 1, 0)
    /\ rpc' = "done"
    /\ UNCHANGED <<session_len, curve, castMode>>
    /\ UNCHANGED <<estimatorVars, hillVars, objectVars>>

----------------------------------------------------------------------------
(* The data the estimators work on *)

MaxLen == 3             \* longest bar sequence of a batch

NaN == -999             \* a missing (undefined) cell of a column
EpsUnit == 1            \* the 1e-10 floor inside the logarithm, one unit

BatchSizes == {1, 2}    \* number of series N of a batch
Prices == {0, 1, 2}     \* defined prices of a close column
CloseVals == Prices \cup {NaN}

SeqsUpTo(S, n) == UNION {[1..k -> S] : k \in 0..n}

\* An OHLCV frame: its close column (when the frame has one) and its volume
\* column; the volume of the bar at position t is t, so that bars stay
\* distinguishable. preprocess_ohlcv_df (line 286) reads "volume" of every
\* frame at construction, so every frame of an instance has that column.
DataFrames ==
    {[has_close |-> TRUE, close |-> c, volume |-> [t \in 1..Len(c) |-> t]] :
        c \in SeqsUpTo(CloseVals, MaxLen)}
    \cup
    {[has_close |-> FALSE, close |-> <<>>, volume |-> [t \in 1..k |-> t]] :
        k \in 0..MaxLen}

Batches == UNION {[1..n -> DataFrames] : n \in BatchSizes}

\* colname in df.columns
HasColumn(df, colname) ==
    IF colname = "close" THEN df.has_close ELSE colname = "volume"

\* df[colname]
Column(df, colname) == IF colname = "close" THEN df.close ELSE df.volume

\* len(df)
DfLen(df) == Len(df.volume)

\* series.isnull().sum()
IsNullSum(s) == Cardinality({i \in 1..Len(s) : s[i] = NaN})

\* series.dropna().values
DropNa(s) == SelectSeq(s, LAMBDA x : x # NaN)

\* series.dropna().index: the bar positions of the cells dropna keeps
KeptPositions(s) == SelectSeq([t \in 1..Len(s) |-> t], LAMBDA t : s[t] # NaN)

\* list.count(x)
CountOf(list, x) == Cardinality({i \in 1..Len(list) : list[i] = x})

\* What a call does: it returns a value or raises an exception.
Returned(v) == [raised |-> "none", val |-> v]
Raised(e) == [raised |-> e, val |-> <<>>]

\* A loop over calls ends at the first one that raises.
AnyRaised(rs) == \E i \in 1..Len(rs) : rs[i].raised # "none"
FirstRaised(rs) ==
    rs[CHOOSE i \in 1..Len(rs) :
          /\ rs[i].raised # "none"
          /\ \A j \in 1..(i - 1) : rs[j].raised = "none"].raised

\* The shape of a two-dimensional array kept as a sequence of rows.
Shape(m) == <<Len(m), IF Len(m) = 0 THEN 0 ELSE Len(m[1])>>

\* A flatten that keeps the first row only.
FlattenFirstRow(m) == IF m = <<>> THEN <<>> ELSE Head(m)

RECURSIVE Flatten(_)
Flatten(m) == IF m = <<>> THEN <<>> ELSE Head(m) \o Flatten(Tail(m))

----------------------------------------------------------------------------
(* _is_stacking_possible, _stack_dfs *)

\* A comparison of the positions of the missing values, not of their count.
NullPositionsAgree(dfs, colname) ==
    IF \E i \in 1..Len(dfs) : ~HasColumn(dfs[i], colname) THEN Raised("KeyError")
    ELSE Returned(\A i \in 1..Len(dfs) : \A t \in 1..Len(Column(dfs[i], colname)) :
                      (Column(dfs[i], colname)[t] = NaN) <=> (Column(dfs[1], colname)[t] = NaN))

\* line 338: df[colname] raises KeyError on a frame without the column.
NullCountsAgree(dfs, colname) ==
    IF \E i \in 1..Len(dfs) : ~HasColumn(dfs[i], colname) THEN Raised("KeyError")
    ELSE LET nulls == [i \in 1..Len(dfs) |-> IsNullSum(Column(dfs[i], colname))]
         IN  Returned(CountOf(nulls, nulls[1]) = Len(dfs))

\* lines 336-340, the checks after the column loop.
LengthsAndNullsAgree(dfs, colname) ==
    LET lens == [i \in 1..Len(dfs) |-> DfLen(dfs[i])]
    IN  IF CountOf(lens, lens[1]) # Len(dfs) THEN Returned(FALSE)
        ELSE NullCountsAgree(dfs, colname)

\* A gate that compares the columns and the lengths but not the counts of
\* missing values.
IsStackingPossibleLengthsOnly(dfs, colname) ==
    IF \E i \in 1..Len(dfs) : ~HasColumn(dfs[i], colname) THEN Returned(FALSE)
    ELSE LET lens == [i \in 1..Len(dfs) |-> DfLen(dfs[i])]
         IN  Returned(CountOf(lens, lens[1]) = Len(dfs))

\* lines 333-340
IsStackingPossible(dfs, colname) ==
    IF \E i \in 1..Len(dfs) : ~HasColumn(dfs[i], colname) THEN Returned(FALSE)
    ELSE LengthsAndNullsAgree(dfs, colname)

\* lines 356-360
StackDfs(dfs, colname) ==
    LET ok == IsStackingPossible(dfs, colname)
    IN  IF ok.raised # "none" THEN Raised(ok.raised)
        ELSE IF ~ok.val THEN Raised("AssertionError")
        ELSE Returned([i \in 1..Len(dfs) |-> DropNa(Column(dfs[i], colname))])

----------------------------------------------------------------------------
(* _calc_return_arr_from_df, _calc_return_arr_from_dfs *)

\* 1000 * ln(p) for a positive price p <= 3
LnMilli(p) == <<0, 693, 1099>>[p]

\* np.log(p_next / p_prev + 1e-10) in fixed point: the logarithm of the
\* ratio in thousandths, the floor as one more unit. The sum is positive
\* when p_next >= p_prev and negative otherwise, as the float is. Behind
\* the callers' positivity assertion both prices are positive; without it a
\* zero divisor gives a non-finite value (kept as NaN) and a zero dividend
\* gives log(1e-10).
LogReturn(p_next, p_prev) ==
    IF p_prev <= 0 \/ p_next < 0 THEN NaN
    ELSE IF p_next = 0 THEN -23026
    ELSE LnMilli(p_next) - LnMilli(p_prev) + EpsUnit

\* np.log(price[1:] / price[:-1] + 1e-10) of one row
RowReturns(price) ==
    LET head == SubSeq(price, 1, Len(price) - 1)        \* price[:-1]
        tail == SubSeq(price, 2, Len(price))            \* price[1:]
    IN  [t \in 1..Len(tail) |-> LogReturn(tail[t], head[t])]

\* lines 369-374: shape (1, L-1)
CalcReturnArrFromDf(df, colname) ==
    IF ~HasColumn(df, colname) THEN Raised("KeyError")
    ELSE LET price_arr == DropNa(Column(df, colname))
         IN  IF \E t \in 1..Len(price_arr) : price_arr[t] <= 0
             THEN Raised("AssertionError")
             ELSE Returned(<<RowReturns(price_arr)>>)

\* Batched returns with the two column slices exchanged.
BatchReturnsSwapped(price_arr) ==
    LET ncol == Shape(price_arr)[2]
        later == [i \in 1..Len(price_arr) |-> SubSeq(price_arr[i], 2, ncol)]
        earlier == [i \in 1..Len(price_arr) |-> SubSeq(price_arr[i], 1, ncol - 1)]
    IN  [i \in 1..Len(price_arr) |->
            [t \in 1..Len(later[i]) |-> LogReturn(earlier[i][t], later[i][t])]]

\* np.log(price_arr[:,1:] / price_arr[:,:-1] + 1e-10) of a stacked array:
\* the column slices are taken across all rows at once.
BatchReturns(price_arr) ==
    LET ncol == Shape(price_arr)[2]
        later == [i \in 1..Len(price_arr) |-> SubSeq(price_arr[i], 2, ncol)]
        earlier == [i \in 1..Len(price_arr) |-> SubSeq(price_arr[i], 1, ncol - 1)]
    IN  [i \in 1..Len(price_arr) |->
            [t \in 1..Len(later[i]) |-> LogReturn(later[i][t], earlier[i][t])]]

\* A batched computation whose assertion lets a zero price through.
CalcReturnArrFromDfsZeroAdmitted(dfs, colname) ==
    LET stacked == StackDfs(dfs, colname)
    IN  IF stacked.raised # "none" THEN Raised(stacked.raised)
        ELSE IF \E i \in 1..Len(stacked.val) :
                    \E t \in 1..Len(stacked.val[i]) : stacked.val[i][t] < 0
             THEN Raised("AssertionError")
             ELSE Returned(BatchReturns(stacked.val))

\* lines 384-391 (is_abs is False at every call site)
CalcReturnArrFromDfs(dfs, colname) ==
    LET stacked == StackDfs(dfs, colname)
    IN  IF stacked.raised # "none" THEN Raised(stacked.raised)
        ELSE IF \E i \in 1..Len(stacked.val) :
                    \E t \in 1..Len(stacked.val[i]) : stacked.val[i][t] <= 0
             THEN Raised("AssertionError")
             ELSE Returned(BatchReturns(stacked.val))

\* A test that never finds the stored array.
NeedsComputeAlways(ra) == TRUE

\* `if self.return_arr is None`
NeedsCompute(ra) == ra = <<>>

\* lines 436-441, 521-524, 622-625, 677-680, 809-812: the batched return
\* array is computed when unset and stored; an exception leaves it unset.
MemoReturnArr(dfs, ra, cnt) ==
    IF ~NeedsCompute(ra) THEN [raised |-> "none", ra |-> ra, cnt |-> cnt]
    ELSE LET c == CalcReturnArrFromDfs(dfs, "close")
         IN  IF c.raised # "none" THEN [raised |-> c.raised, ra |-> ra, cnt |-> cnt]
             ELSE [raised |-> "none", ra |-> <<c.val>>, cnt |-> cnt + 1]

\* The per-series loop `for ohlcv_df in self.ohlcv_dfs` calling
\* _calc_return_arr_from_df: the first exception ends the loop.
PerSeriesReturns(dfs) ==
    LET rs == [i \in 1..Len(dfs) |-> CalcReturnArrFromDf(dfs[i], "close")]
    IN  IF AnyRaised(rs) THEN Raised(FirstRaised(rs))
        ELSE Returned([i \in 1..Len(dfs) |-> rs[i].val])

----------------------------------------------------------------------------
(* Array helpers of the estimators *)

Max(a, b) == IF a >= b THEN a ELSE b

RECURSIVE Insert(_, _)
Insert(x, s) ==
    IF s = <<>> THEN <<x>>
    ELSE IF x <= Head(s) THEN <<x>> \o s
    ELSE <<Head(s)>> \o Insert(x, Tail(s))

RECURSIVE SortRow(_)
SortRow(s) == IF s = <<>> THEN <<>> ELSE Insert(Head(s), SortRow(Tail(s)))

\* np.sort(arr, axis=1)
SortRows(m) == [i \in 1..Len(m) |-> SortRow(m[i])]

\* np.abs(arr), -1 * arr
AbsRows(m) == [i \in 1..Len(m) |-> [t \in 1..Len(m[i]) |-> IF m[i][t] < 0 THEN -m[i][t] ELSE m[i][t]]]
NegRows(m) == [i \in 1..Len(m) |-> [t \in 1..Len(m[i]) |-> -m[i][t]]]

\* The column count of an elementwise operation on arrays of a and b columns
\* (equal row counts): numpy broadcasts a dimension of 1 and raises ValueError
\* on any other mismatch.
Broadcast(a, b) ==
    IF a = b \/ b = 1 THEN Returned(a)
    ELSE IF a = 1 THEN Returned(b)
    ELSE Raised("ValueError")

\* arr.item(): only an array of one element converts to a scalar
Item(shape) ==
    IF shape[1] * shape[2] = 1 THEN Returned(shape) ELSE Raised("ValueError")

\* np.array(list)[:,np.newaxis] and np.array(list)[np.newaxis,:]
ListAsColumn(n) == <<n, 1>>
ListAsRow(n) == <<1, n>>

----------------------------------------------------------------------------
(* _calc_kurtosis, _calc_hill_indices, _calc_both_sides_hill_indices,
   _calc_autocorrelation, _calc_volume_volatility_correlation *)

\* lines 478-484 on a two-dimensional array: scipy's kurtosis with
\* keepdims, and kurtosistest's p-values with a new axis.
CalcKurtosis(arr) == Returned(<<<<Len(arr), 1>>, <<Len(arr), 1>>>>)

\* int(np.floor(ncol * (1 - cut_off_th))), cut_off_th = num / den
TailStart(ncol, num, den) == (ncol * (den - num)) \div den

\* A sign test that lets an exact zero through.
StrictlyNegative(x) == x < 0

\* line 569: a tail value the Hill estimator rejects
NonPositive(x) == x <= 0

\* lines 561-579: the check of the order, the tail cut, the check of the
\* tail's sign, and k = the tail's length dividing 1.
CalcHillIndices(arr, num, den) ==
    IF arr # SortRows(arr) THEN Raised("ValueError")
    ELSE LET ncol == Shape(arr)[2]
             cut == [i \in 1..Len(arr) |->
                        SubSeq(arr[i], TailStart(ncol, num, den) + 1, ncol)]
         IN  IF \E i \in 1..Len(cut) : \E t \in 1..Len(cut[i]) : NonPositive(cut[i][t])
             THEN Raised("ValueError")
             ELSE IF Shape(cut)[2] = 0 THEN Raised("ZeroDivisionError")
             ELSE Returned(<<Len(arr), 1>>)

\* lines 596-611: right, then left, then abs
CalcBothSidesHillIndices(arr, num, den) ==
    LET right == CalcHillIndices(SortRows(arr), num, den)
        left == CalcHillIndices(SortRows(NegRows(arr)), num, den)
        abs == CalcHillIndices(SortRows(AbsRows(arr)), num, den)
    IN  IF right.raised # "none" THEN Raised(right.raised)
        ELSE IF left.raised # "none" THEN Raised(left.raised)
        ELSE IF abs.raised # "none" THEN Raised(abs.raised)
        ELSE Returned(<<left.val, right.val, abs.val>>)

\* lines 660-669 for lags >= 1: per lag, the product of abs[:,lag:] and
\* abs[:,:-lag], its mean over axis 1 with keepdims, over the variance.
CalcAutocorrelation(arr, lags) ==
    LET ncol == Shape(arr)[2]
        per == [k \in 1..Len(lags) |->
                   Broadcast(Max(ncol - lags[k], 0), Max(ncol - lags[k], 0))]
    IN  IF AnyRaised(per) THEN Raised(FirstRaised(per))
        ELSE Returned([k \in 1..Len(lags) |-> <<Len(arr), 1>>])

\* lines 714-732: (abs_return_arr - mean) * (volume_arr - mean), its mean
\* over axis 1 with keepdims, over the product of the deviations.
CalcVolumeVolatilityCorrelation(abs_return_arr, volume_arr) ==
    LET prod == Broadcast(Shape(abs_return_arr)[2], Shape(volume_arr)[2])
    IN  IF prod.raised # "none" THEN Raised(prod.raised)
        ELSE Returned(<<Len(abs_return_arr), 1>>)

----------------------------------------------------------------------------
(* The estimators: check_kurtosis, check_hill_index, check_autocorrelation,
   check_volume_volatility_correlation, plot_ccdf.  Each yields the new
   self.return_arr (ra), the count of its assignments (cnt) and the outcome
   of the call (out). *)

CutOffs == {<<1, 20>>, <<1, 2>>}        \* cut_off_th: the default 0.05, and 0.5
LagLists == {<<1>>, <<1, 2>>}           \* lags

NoOutcome ==
    [op |-> "none", path |-> "none", warned |-> FALSE, raised |-> "none",
     reused |-> FALSE, shapes |-> <<>>, sample |-> <<>>,
     abs_rows |-> <<>>, vol_rows |-> <<>>, colname |-> "", verdict |-> FALSE,
     draw_idx |-> 0]

\* An outcome on the batched path (no warning) and on the per-series path
\* (warnings.warn runs first in the else branch).
BatchOut(op, reused, raised, shapes) ==
    [NoOutcome EXCEPT !.op = op, !.path = "batch", !.reused = reused,
                      !.raised = raised, !.shapes = shapes]
FallbackOut(op, raised, shapes) ==
    [NoOutcome EXCEPT !.op = op, !.path = "fallback", !.warned = TRUE,
                      !.raised = raised, !.shapes = shapes]
GateOut(op, raised) ==
    [NoOutcome EXCEPT !.op = op, !.path = "gate", !.raised = raised]

Kept(ra, cnt, out) == [ra |-> ra, cnt |-> cnt, out |-> out]

\* lines 435-456
check_kurtosis(dfs, ra, cnt) ==
    LET op == "check_kurtosis"
        stk == IsStackingPossible(dfs, "close")
    IN  IF stk.raised # "none" THEN Kept(ra, cnt, GateOut(op, stk.raised))
        ELSE IF stk.val THEN
            LET m == MemoReturnArr(dfs, ra, cnt)
            IN  IF m.raised # "none"
                THEN Kept(m.ra, m.cnt, BatchOut(op, FALSE, m.raised, <<>>))
                ELSE LET k == CalcKurtosis(m.ra[1])
                     IN  Kept(m.ra, m.cnt, BatchOut(op, ~NeedsCompute(ra), k.raised, k.val))
        ELSE
            LET rs == PerSeriesReturns(dfs)
                items == [i \in 1..Len(dfs) |-> Item(CalcKurtosis(rs.val[i]).val[1])]
            IN  IF rs.raised # "none" THEN Kept(ra, cnt, FallbackOut(op, rs.raised, <<>>))
                ELSE IF AnyRaised(items)
                THEN Kept(ra, cnt, FallbackOut(op, FirstRaised(items), <<>>))
                ELSE Kept(ra, cnt, FallbackOut(op, "none",
                                   <<ListAsColumn(Len(dfs)), ListAsColumn(Len(dfs))>>))

\* lines 519-542
check_hill_index(dfs, ra, cnt, num, den) ==
    LET op == "check_hill_index"
        stk == IsStackingPossible(dfs, "close")
    IN  IF stk.raised # "none" THEN Kept(ra, cnt, GateOut(op, stk.raised))
        ELSE IF stk.val THEN
            LET m == MemoReturnArr(dfs, ra, cnt)
            IN  IF m.raised # "none"
                THEN Kept(m.ra, m.cnt, BatchOut(op, FALSE, m.raised, <<>>))
                ELSE LET return_arr_flatten == <<Flatten(m.ra[1])>>
                         h == CalcBothSidesHillIndices(return_arr_flatten, num, den)
                     IN  Kept(m.ra, m.cnt,
                              [BatchOut(op, ~NeedsCompute(ra), h.raised, h.val)
                                  EXCEPT !.sample = return_arr_flatten])
        ELSE
            LET rs == PerSeriesReturns(dfs)
            IN  IF rs.raised # "none" THEN Kept(ra, cnt, FallbackOut(op, rs.raised, <<>>))
                ELSE LET return_arr_flatten ==
                             <<Flatten([i \in 1..Len(dfs) |-> Flatten(rs.val[i])])>>
                         h == CalcBothSidesHillIndices(return_arr_flatten, num, den)
                     IN  Kept(ra, cnt, [FallbackOut(op, h.raised, h.val)
                                           EXCEPT !.sample = return_arr_flatten])

\* lines 621-644
check_autocorrelation(dfs, ra, cnt, lags) ==
    LET op == "check_autocorrelation"
        stk == IsStackingPossible(dfs, "close")
    IN  IF stk.raised # "none" THEN Kept(ra, cnt, GateOut(op, stk.raised))
        ELSE IF stk.val THEN
            LET m == MemoReturnArr(dfs, ra, cnt)
            IN  IF m.raised # "none"
                THEN Kept(m.ra, m.cnt, BatchOut(op, FALSE, m.raised, <<>>))
                ELSE LET a == CalcAutocorrelation(AbsRows(m.ra[1]), lags)
                     IN  Kept(m.ra, m.cnt, BatchOut(op, ~NeedsCompute(ra), a.raised, a.val))
        ELSE
            LET rs == PerSeriesReturns(dfs)
                per == [i \in 1..Len(dfs) |-> CalcAutocorrelation(AbsRows(rs.val[i]), lags)]
                items == [i \in 1..Len(dfs) |->
                            IF per[i].raised # "none" THEN per[i]
                            ELSE LET its == [k \in 1..Len(lags) |-> Item(per[i].val[k])]
                                 IN  IF AnyRaised(its) THEN Raised(FirstRaised(its))
                                     ELSE Returned(<<>>)]
            IN  IF rs.raised # "none" THEN Kept(ra, cnt, FallbackOut(op, rs.raised, <<>>))
                ELSE IF AnyRaised(items)
                THEN Kept(ra, cnt, FallbackOut(op, FirstRaised(items), <<>>))
                ELSE Kept(ra, cnt, FallbackOut(op, "none",
                                   [k \in 1..Len(lags) |-> ListAsColumn(Len(dfs))]))

\* lines 689-696: one round of the per-series loop
VolumeVolatilityOfOne(df) ==
    LET r == CalcReturnArrFromDf(df, "close")
        volume_arr == <<SubSeq(df.volume, 2, Len(df.volume))>>      \* values[np.newaxis,1:]
        c == CalcVolumeVolatilityCorrelation(AbsRows(r.val), volume_arr)
    IN  IF r.raised # "none" THEN Raised(r.raised)
        ELSE IF c.raised # "none" THEN Raised(c.raised)
        ELSE IF Item(c.val).raised # "none" THEN Raised(Item(c.val).raised)
        ELSE Returned([abs_row |-> AbsRows(r.val)[1], vol_row |-> volume_arr[1]])

\* lines 672-698
check_volume_volatility_correlation(dfs, ra, cnt) ==
    LET op == "check_volume_volatility_correlation"
        stk == IsStackingPossible(dfs, "close")
    IN  IF stk.raised # "none" THEN Kept(ra, cnt, GateOut(op, stk.raised))
        ELSE IF stk.val THEN
            LET stacked == StackDfs(dfs, "volume")
                volume_arr == [i \in 1..Len(stacked.val) |->
                                  SubSeq(stacked.val[i], 2, Len(stacked.val[i]))]   \* [:,1:]
                m == MemoReturnArr(dfs, ra, cnt)
                c == CalcVolumeVolatilityCorrelation(AbsRows(m.ra[1]), volume_arr)
            IN  IF stacked.raised # "none"
                THEN Kept(ra, cnt, BatchOut(op, FALSE, stacked.raised, <<>>))
                ELSE IF m.raised # "none"
                THEN Kept(m.ra, m.cnt, BatchOut(op, FALSE, m.raised, <<>>))
                ELSE Kept(m.ra, m.cnt,
                          [BatchOut(op, ~NeedsCompute(ra), c.raised,
                                    IF c.raised = "none" THEN <<c.val>> ELSE <<>>)
                              EXCEPT !.abs_rows = AbsRows(m.ra[1]), !.vol_rows = volume_arr])
        ELSE
            LET per == [i \in 1..Len(dfs) |-> VolumeVolatilityOfOne(dfs[i])]
            IN  IF AnyRaised(per) THEN Kept(ra, cnt, FallbackOut(op, FirstRaised(per), <<>>))
                ELSE Kept(ra, cnt,
                          [FallbackOut(op, "none", <<ListAsRow(Len(dfs))>>)
                              EXCEPT !.abs_rows = [i \in 1..Len(dfs) |-> per[i].val.abs_row],
                                     !.vol_rows = [i \in 1..Len(dfs) |-> per[i].val.vol_row]])

\* lines 807-828: the return sample plot_ccdf draws; draw_idx = 0 stands for
\* None, draw_idx = i >= 1 for the frame self.ohlcv_dfs[i - 1].
plot_ccdf(dfs, ra, cnt, draw_idx) ==
    LET op == "plot_ccdf"
        stk == IsStackingPossible(dfs, "close")
    IN  IF draw_idx # 0 THEN
            LET r == CalcReturnArrFromDf(dfs[draw_idx], "close")
            IN  Kept(ra, cnt, [NoOutcome EXCEPT !.op = op, !.path = "single",
                                   !.draw_idx = draw_idx, !.raised = r.raised,
                                   !.sample = IF r.raised = "none" THEN r.val ELSE <<>>])
        ELSE IF stk.raised # "none" THEN Kept(ra, cnt, GateOut(op, stk.raised))
        ELSE IF stk.val THEN
            LET m == MemoReturnArr(dfs, ra, cnt)
            IN  IF m.raised # "none"
                THEN Kept(m.ra, m.cnt, BatchOut(op, FALSE, m.raised, <<>>))
                ELSE Kept(m.ra, m.cnt, [BatchOut(op, ~NeedsCompute(ra), "none", <<>>)
                                           EXCEPT !.sample = <<Flatten(m.ra[1])>>])
        ELSE
            LET rs == PerSeriesReturns(dfs)
            IN  IF rs.raised # "none" THEN Kept(ra, cnt, FallbackOut(op, rs.raised, <<>>))
                ELSE Kept(ra, cnt,
                          [FallbackOut(op, "none", <<>>)
                              EXCEPT !.sample = <<Flatten([i \in 1..Len(dfs) |-> Flatten(rs.val[i])])>>])

----------------------------------------------------------------------------
(* _calc_hill_indices called directly on an array of the caller's choice *)

MaxHillLen == 3         \* most columns of the array

HillVals == -1..2       \* its values
HillRows == {1, 2}      \* its row counts

HillArrays ==
    UNION {[1..r -> [1..k -> HillVals]] : r \in HillRows, k \in 0..MaxHillLen}

InitHill ==
    /\ hill_in \in [arr : HillArrays, cut : CutOffs]
    /\ hill_out = [called |-> FALSE, raised |-> "none", val |-> <<>>]

IdleHill ==
    /\ hill_in = [arr |-> <<>>, cut |-> <<1, 20>>]
    /\ hill_out = [called |-> FALSE, raised |-> "none", val |-> <<>>]

CalcHillIndicesCall ==
    /\ ~hill_out.called
    /\ LET r == CalcHillIndices(hill_in.arr, hill_in.cut[1], hill_in.cut[2])
       IN  hill_out' = [called |-> TRUE, raised |-> r.raised, val |-> r.val]
    /\ UNCHANGED <<hill_in, resampleVars, estimatorVars, objectVars>>

NextHill == CalcHillIndicesCall

----------------------------------------------------------------------------
(* _calc_kurtosis called directly on an array of the caller's choice *)

KurtVals == {-1, 0, 1}  \* cells of the array
KurtRows == {1, 2}      \* rows of a two-dimensional array

\* The caller's array: with ndim = 1 its cells are rows[1], with ndim = 2
\* rows is the sequence of its rows.
KurtArrays ==
    {[ndim |-> 1, rows |-> <<r>>] : r \in SeqsUpTo(KurtVals, MaxLen)}
    \cup
    {[ndim |-> 2, rows |-> m] :
        m \in UNION {[1..n -> [1..k -> KurtVals]] : n \in KurtRows, k \in 0..MaxLen}}

\* A rank test that lets every array through.
RankAny(a) == TRUE

\* line 474: len(return_arr.shape) == 2
RankIsTwo(a) == a.ndim = 2

\* lines 474-484
CalcKurtosisOfArray(a) ==
    IF ~RankIsTwo(a) THEN Raised("ValueError") ELSE CalcKurtosis(a.rows)

NoCall == [called |-> FALSE, raised |-> "none", val |-> <<>>]

InitKurtosis == kurt \in [in : KurtArrays, is_fisher : BOOLEAN, out : {NoCall}]

IdleKurtosis == kurt = <<>>

CalcKurtosisCall ==
    /\ ~kurt.out.called
    /\ LET r == CalcKurtosisOfArray(kurt.in)
       IN  kurt' = [kurt EXCEPT !.out = [called |-> TRUE, raised |-> r.raised, val |-> r.val]]
    /\ UNCHANGED <<resampleVars, estimatorVars, hillVars, checker, twins, buffer>>

NextKurtosis == CalcKurtosisCall

----------------------------------------------------------------------------
(* RolloutBuffer4IPPO (src/drl_algos/buffers.py) *)

BufferSizes == {1, 2}   \* buffer_size
AgentNums == {1, 2}     \* agent_num
Obs == {1, 2}           \* observations (obs_shape is one cell)
Payloads == {0, 1}      \* one draw x per append: action = reward = log_prob = x, done = (x = 1)
Empty == -1             \* a cell of torch.empty that no append has written
MaxAppends == 3         \* append calls followed per agent between two resets

AgentsOf(b) == 0..(b.agent_num - 1)
SlotsOf(b) == 0..(b.buffer_size - 1)

\* tensor[i] with Python's negative indices
Slot(b, i) == IF i < 0 THEN i + b.buffer_size ELSE i

\* torch.empty((buffer_size, agent_num, ...))
EmptyTensor(bs, an) == [t \in 0..(bs - 1) |-> [a \in 0..(an - 1) |-> Empty]]

\* lines 37-42 and 49-82: the fields after _initialize_buffer
FreshBuffer(bs, an) ==
    [buffer_size |-> bs, agent_num |-> an,
     is_storing_dic |-> [a \in 0..(an - 1) |-> TRUE],
     next_idx_dic |-> [a \in 0..(an - 1) |-> 0],
     obses |-> EmptyTensor(bs, an), actions |-> EmptyTensor(bs, an),
     rewards |-> EmptyTensor(bs, an), dones |-> EmptyTensor(bs, an),
     log_probs |-> EmptyTensor(bs, an), next_obses |-> EmptyTensor(bs, an)]

\* the six tensors a buffer's fields refer to, in the order of line 136
Experiences(b) ==
    <<b.obses, b.actions, b.rewards, b.dones, b.log_probs, b.next_obses>>

\* Tensors that stay in the storage they had.
SameStorage(store) == store

\* torch.empty allocates: the new tensors are in a storage other than the
\* one of the tensors the fields referred to before
NewStorage(store) == 1 - store

\* What is followed beside the fields: the observations each agent has
\* appended since construction or the last get(), the storage the fields'
\* tensors are in, the storage of the tuple get() returned last (<<>>
\* before the first get()), and the last call with the value it returned.
Tracking(an, store, handed, out) ==
    [appended |-> [a \in 0..(an - 1) |-> <<>>],
     store |-> store, handed |-> handed, out |-> out]

NoBufferCall == [op |-> "none", val |-> <<>>]

\* lines 20-42: a buffer as constructed
NewBuffer(bs, an) == FreshBuffer(bs, an) @@ Tracking(an, 0, <<>>, NoBufferCall)

\* A test that finds the buffer filled as soon as one agent is full.
AnyAgentFull(b) == \E a \in AgentsOf(b) : ~b.is_storing_dic[a]

\* tensor[i, agent_idx] = v
Put(b, tensor, i, agent_idx, v) ==
    [tensor EXCEPT ![Slot(b, i)][agent_idx] = v]

\* lines 99-119
append(b, agent_idx, obs, x) ==
    LET next_idx == b.next_idx_dic[agent_idx]
        is_storing == b.is_storing_dic[agent_idx]
    IN  IF ~is_storing
        THEN [b EXCEPT
                !.obses = IF next_idx = 0 THEN Put(b, b.obses, -1, agent_idx, obs)
                          ELSE b.obses,
                !.next_idx_dic[agent_idx] = 1,
                !.appended[agent_idx] = Append(@, obs),
                !.out = [op |-> "append", val |-> <<>>]]
        ELSE [b EXCEPT
                !.appended[agent_idx] = Append(@, obs),
                !.out = [op |-> "append", val |-> <<>>],
                !.next_obses = Put(b, b.next_obses, next_idx - 1, agent_idx, obs),
                !.obses = Put(b, b.obses, next_idx, agent_idx, obs),
                !.actions = Put(b, b.actions, next_idx, agent_idx, x),
                !.rewards = Put(b, b.rewards, next_idx, agent_idx, x),
                !.dones = Put(b, b.dones, next_idx, agent_idx, x),
                !.log_probs = Put(b, b.log_probs, next_idx, agent_idx, x),
                !.next_idx_dic[agent_idx] = (next_idx + 1) % b.buffer_size,
                !.is_storing_dic[agent_idx] =
                    IF next_idx + 1 = b.buffer_size THEN FALSE ELSE @]

\* lines 121-127
is_filled(b) == ~(\E a \in AgentsOf(b) : b.is_storing_dic[a])

\* lines 135-139: the tensors are handed out and the fields start afresh
get(b) ==
    FreshBuffer(b.buffer_size, b.agent_num)
        @@ Tracking(b.agent_num, NewStorage(b.store), <<b.store>>,
                    [op |-> "get", val |-> <<Experiences(b)>>])

InitBuffer == \E bs \in BufferSizes, an \in AgentNums : buffer = NewBuffer(bs, an)

IdleBuffer == buffer = <<>>

BufferAppend ==
    /\ \E agent_idx \in AgentsOf(buffer), obs \in Obs, x \in Payloads :
          /\ Len(buffer.appended[agent_idx]) < MaxAppends
          /\ buffer' = append(buffer, agent_idx, obs, x)
    /\ UNCHANGED <<resampleVars, estimatorVars, hillVars, checker, twins, kurt>>

BufferGet ==
    /\ buffer' = get(buffer)
    /\ UNCHANGED <<resampleVars, estimatorVars, hillVars, checker, twins, kurt>>

NextBuffer == BufferAppend \/ BufferGet

----------------------------------------------------------------------------
(* The random stream of an instance: self.prng = random.Random(seed), and
   self.prng.choice(columns) in _resample_art_per_session *)

PrngModulus == 8        \* states of the generator
Seeds == 0..(PrngModulus - 1)

\* random.Random(seed): the seed fixes the generator's first state
SeedState(seed) == seed % PrngModulus

\* one step of the generator (a full-period congruential step)
PrngStep(s) == (5 * s + 3) % PrngModulus

\* n.bit_length() for the table widths of the model
BitLength(n) == IF n = 0 THEN 0 ELSE IF n = 1 THEN 1 ELSE IF n < 4 THEN 2 ELSE 3

\* 2 ** k
Pow2(k) == IF k = 0 THEN 1 ELSE IF k = 1 THEN 2 ELSE IF k = 2 THEN 4 ELSE 8

\* Random._randbelow(n): getrandbits(k) is drawn again until it is below n.
\* The result is the value and the generator's state after the draws.
RECURSIVE RandBelow(_, _)
RandBelow(s, n) ==
    LET s1 == PrngStep(s)
        r == s1 % Pow2(BitLength(n))
    IN  IF r < n THEN [val |-> r, prng |-> s1] ELSE RandBelow(s1, n)

\* prng.choice(columns): the position (from 1) of the chosen column
Choice(s, ncols) ==
    LET d == RandBelow(s, ncols)
    IN  [col |-> d.val + 1, prng |-> d.prng]

\* The columns of a reference curve table of two rows: a table of width w
\* holds the first w of them.
TableColumns == <<<<0, CurveDen>>, <<CurveDen, CurveDen>>, <<1, CurveDen>>>>
TableWidths == 1..Len(TableColumns)

\* lines 213-242 for a session of n events and a table of width w: the
\* chosen column, the bars it yields, and the generator afterwards
ResampleSessionWith(s, n, w) ==
    LET c == Choice(s, w)
        cuts == CutPoints(n, TableColumns[c.col], "wrap")
    IN  [col |-> c.col, bars |-> FoldBars(n, cuts, 1, 0), prng |-> c.prng]

----------------------------------------------------------------------------
(* Two StylizedFactsChecker instances built with the same seed, each
   resampling the same synthetic tick files in order *)

MaxFiles == 2           \* synthetic tick files of a run
EventCounts == {1, 2}   \* events of one session of a file
Instances == {1, 2}

\* a tick file: the event counts of its session 1 and session 2
TickFiles == [n1 : EventCounts, n2 : EventCounts]

\* A generator that every instance of the process shares.
SharedStream(inst) == 1

\* self.prng: the generator an instance draws from is its own
StreamOf(inst) == inst

InitSeed ==
    \E seed \in Seeds, w1 \in TableWidths, w2 \in TableWidths,
       files \in UNION {[1..k -> TickFiles] : k \in 1..MaxFiles} :
        twins = [seed |-> seed, widths |-> <<w1, w2>>, files |-> files,
                 streams |-> [i \in Instances |-> SeedState(seed)],
                 done |-> [i \in Instances |-> 0],
                 draws |-> [i \in Instances |-> 0],
                 out |-> [i \in Instances |-> <<>>]]

IdleSeed == twins = <<>>

\* lines 176-200 on the instance's next file: session 1, then session 2,
\* each with one prng.choice
TwinResampleArt(inst) ==
    /\ twins.done[inst] < Len(twins.files)
    /\ LET file == twins.files[twins.done[inst] + 1]
           g == StreamOf(inst)
           s1 == ResampleSessionWith(twins.streams[g], file.n1, twins.widths[1])
           s2 == ResampleSessionWith(s1.prng, file.n2, twins.widths[2])
       IN  twins' = [twins EXCEPT
                        !.streams[g] = s2.prng,
                        !.done[inst] = @ + 1,
                        !.draws[inst] = @ + 2,
                        !.out[inst] = @ \o <<[col |-> s1.col, bars |-> s1.bars],
                                             [col |-> s2.col, bars |-> s2.bars]>>]
    /\ UNCHANGED <<resampleVars, estimatorVars, hillVars, checker, kurt, buffer>>

NextSeed == \E inst \in Instances : TwinResampleArt(inst)

----------------------------------------------------------------------------
(* Tick ingestion of one instance: _resample_real, _resample_art,
   preprocess_ohlcv_df.  A frame is kept column by column; a time of day is
   a number of Times; an undefined price is NaN. *)

MaxTime == 5            \* latest time of day
Times == 1..MaxTime
SessionSizes == 0..2    \* events of one session of a synthetic tick file
IngestSeeds == {42}     \* seed: the default
Unit == 1000            \* a proportion p is kept as round(p * Unit)

\* The outcome of the last call on the instance: the method, the exception
\* it raised, whether it changed the current frame, and the inputs it read
\* (the indexes of the two curve tables; the first bucket and the tick
\* counts of the buckets).
NoOp ==
    [op |-> "none", raised |-> "none", changed |-> FALSE,
     idx1 |-> <<>>, idx2 |-> <<>>, t0 |-> 0, counts |-> <<>>]

\* a frame without derived columns
NoDerived == [name \in {} |-> <<>>]

\* column.ffill()
Ffill(col) ==
    LET f[i \in 0..Len(col)] ==
            IF i = 0 THEN NaN ELSE IF col[i] # NaN THEN col[i] ELSE f[i - 1]
    IN  [i \in 1..Len(col) |-> f[i]]

\* A fill that leaves the column as it is.
NoFill(col) == col

\* the fill the resamplers apply to close (lines 169, 199, 250)
FillClose(col) == Ffill(col)

\* "event_price (avg)" of the event at position p (from 0) of session s,
\* and market_price of the tick in the bucket at time t: every event has
\* its own positive price, rising with the position
EventPrice(s, p) == 10 * s + p + 1
TickPrice(t) == 100 + t

\* lines 226-251: the bars of one session as a frame indexed by the table's
\* index; every event has event_volume 1
SessionFrame(s, idx, bars) ==
    LET n == Len(bars)
    IN  [index |-> idx,
         open |-> [i \in 1..n |-> IF bars[i].empty THEN NaN ELSE EventPrice(s, bars[i].first)],
         high |-> [i \in 1..n |-> IF bars[i].empty THEN NaN ELSE EventPrice(s, bars[i].stop - 1)],
         low |-> [i \in 1..n |-> IF bars[i].empty THEN NaN ELSE EventPrice(s, bars[i].first)],
         close |-> FillClose([i \in 1..n |->
                      IF bars[i].empty THEN NaN ELSE EventPrice(s, bars[i].stop - 1)]),
         volume |-> [i \in 1..n |-> bars[i].num_events],
         num_events |-> [i \in 1..n |-> bars[i].num_events]]

\* lines 194-200: pd.concat of the two session frames, close filled again
ConcatSessions(f1, f2) ==
    [lower |-> TRUE,
     index |-> f1.index \o f2.index,
     open |-> f1.open \o f2.open,
     high |-> f1.high \o f2.high,
     low |-> f1.low \o f2.low,
     close |-> FillClose(f1.close \o f2.close),
     volume |-> f1.volume \o f2.volume,
     num_events |-> f1.num_events \o f2.num_events,
     derived |-> NoDerived]

\* A test that finds every boundary unset.
UnsetAlways(b) == TRUE

\* `self.session1_end_time is None`
Unset(b) == b = <<>>

\* lines 176-200. file = [n1, n2], tables = [idx1, idx2]: the event counts
\* of the two sessions and the indexes of the two reference curve tables.
ResampleArt(c, file, tables) ==
    LET s1 == ResampleSessionWith(c.prng, file.n1, Len(TableColumns))
        f1 == SessionFrame(1, tables.idx1, s1.bars)
        end1 == IF Unset(c.session1_end_time)
                THEN <<f1.index[Len(f1.index)]>> ELSE c.session1_end_time
        s2 == ResampleSessionWith(s1.prng, file.n2, Len(TableColumns))
        f2 == SessionFrame(2, tables.idx2, s2.bars)
        start2 == IF Unset(c.session2_start_time)
                  THEN <<f2.index[1]>> ELSE c.session2_start_time
    IN  [c EXCEPT !.prng = s2.prng,
                  !.session1_end_time = end1,
                  !.session2_start_time = start2,
                  !.df = <<ConcatSessions(f1, f2)>>,
                  !.out = [NoOp EXCEPT !.op = "_resample_art", !.changed = TRUE,
                                       !.idx1 = tables.idx1, !.idx2 = tables.idx2]]

\* the rows of a frame at the positions kept, in order
TakeRows(cols, kept) == [j \in 1..Len(kept) |-> cols[kept[j]]]

\* lines 158-174. The ticks fill the buckets t0, t0+1, ... of the cadence:
\* counts[i] ticks in bucket i, the first and the last bucket not empty.
\* Comparing the index with a boundary that is None raises TypeError.
ResampleReal(c, t0, counts) ==
    LET n == Len(counts)
        index == [i \in 1..n |-> t0 + i - 1]
        price == [i \in 1..n |-> IF counts[i] = 0 THEN NaN ELSE TickPrice(index[i])]
        close == FillClose(price)
    IN  IF Unset(c.session1_end_time) \/ Unset(c.session2_start_time)
        THEN [c EXCEPT !.out = [NoOp EXCEPT !.op = "_resample_real",
                                            !.raised = "TypeError",
                                            !.t0 = t0, !.counts = counts]]
        ELSE LET kept == SelectSeq([i \in 1..n |-> i],
                             LAMBDA i : \/ index[i] <= c.session1_end_time[1]
                                        \/ c.session2_start_time[1] <= index[i])
             IN  [c EXCEPT
                    !.df = <<[lower |-> TRUE,
                              index |-> TakeRows(index, kept),
                              open |-> TakeRows(price, kept),
                              high |-> TakeRows(price, kept),
                              low |-> TakeRows(price, kept),
                              close |-> TakeRows(close, kept),
                              volume |-> TakeRows(counts, kept),
                              num_events |-> TakeRows(counts, kept),
                              derived |-> NoDerived]>>,
                    !.out = [NoOp EXCEPT !.op = "_resample_real", !.changed = TRUE,
                                         !.t0 = t0, !.counts = counts]]

\* column.sum(): undefined cells are skipped
SumSkipNa(col) == SumSeq([i \in 1..Len(col) |-> IF col[i] = NaN THEN 0 ELSE col[i]])

\* The number of cells, taken for the column's sum.
CountCells(col) == Len(col)

\* the divisor of a normalisation: the column's sum
Total(col) == SumSkipNa(col)

\* a / b of two floats as a proportion: rounded to the nearest unit; an
\* undefined dividend and 0 / 0 give an undefined cell
Div(a, b) ==
    IF a = NaN \/ b = 0 THEN NaN ELSE (2 * a * Unit + b) \div (2 * b)

\* column / column.sum()
Normalized(col) == [i \in 1..Len(col) |-> Div(col[i], Total(col))]

\* A lowercasing that turns the case of the names over.
CaseFlipped(lower) == ~lower

\* line 283: df.columns.str.lower(); the names are lowercase afterwards
Lowered(lower) == TRUE

\* A mask that takes the bars from the boundary on.
FromBoundary(t, b) == b <= t

\* line 295: df.index <= self.session1_end_time
InSession1(t, b) == t <= b

\* line 309: self.session2_start_time <= df.index
InSession2(t, b) == b <= t

\* A column assignment that also clears the volume column.
WithColumnZeroingVolume(df, name, vals) ==
    [df EXCEPT !.derived = (name :> vals) @@ @,
               !.volume = [i \in 1..Len(@) |-> 0]]

\* df[name] = vals
WithColumn(df, name, vals) == [df EXCEPT !.derived = (name :> vals) @@ @]

\* lines 284-288: a column is derived only when the frame lacks it
AddIfAbsent(df, name, vals) ==
    IF name \in DOMAIN df.derived THEN df ELSE WithColumn(df, name, vals)

\* lines 291-296: zeros, the base column copied in on the bars of the
\* session, then the column over its sum
SessionScaled(df, base, mask) ==
    Normalized([i \in 1..Len(df.index) |-> IF mask[i] THEN df.derived[base][i] ELSE 0])

\* lines 289-302 (session 1) and 303-314 (session 2)
AddSessionColumns(df, prefix, mask) ==
    LET d1 == AddIfAbsent(df, prefix \o "_scaled_volume",
                          SessionScaled(df, "scaled_volume", mask))
    IN  AddIfAbsent(d1, prefix \o "_scaled_num_events",
                    SessionScaled(d1, "scaled_num_events", mask))

\* lines 283-315
Preprocess(df, end1, start2) ==
    LET d0 == [df EXCEPT !.lower = Lowered(@)]
        d1 == AddIfAbsent(d0, "scaled_volume", Normalized(d0.volume))
        d2 == AddIfAbsent(d1, "scaled_num_events", Normalized(d1.num_events))
        d3 == IF end1 = <<>> THEN d2
              ELSE AddSessionColumns(d2, "session1",
                       [i \in 1..Len(d2.index) |-> InSession1(d2.index[i], end1[1])])
    IN  IF start2 = <<>> THEN d3
        ELSE AddSessionColumns(d3, "session2",
                 [i \in 1..Len(d3.index) |-> InSession2(d3.index[i], start2[1])])

\* An OHLCV table read from a csv file: bars at the times 2, 3, ...; the
\* bar at position i is empty or holds one event of volume i.
OhlcvFrames ==
    {[lower |-> l,
      index |-> [i \in 1..Len(c) |-> i + 1],
      open |-> [i \in 1..Len(c) |-> IF c[i] = 0 THEN NaN ELSE TickPrice(i + 1)],
      high |-> [i \in 1..Len(c) |-> IF c[i] = 0 THEN NaN ELSE TickPrice(i + 1)],
      low |-> [i \in 1..Len(c) |-> IF c[i] = 0 THEN NaN ELSE TickPrice(i + 1)],
      close |-> [i \in 1..Len(c) |-> IF c[i] = 0 THEN NaN ELSE TickPrice(i + 1)],
      volume |-> [i \in 1..Len(c) |-> c[i] * i],
      num_events |-> c,
      derived |-> NoDerived] :
        l \in BOOLEAN, c \in UNION {[1..k -> 0..1] : k \in 1..MaxLen}}

\* the indexes of the session-1 and session-2 reference curve tables: two
\* rows each, session 2 after session 1
TableIndexes ==
    {[idx1 |-> <<q[1], q[1] + 1>>, idx2 |-> <<q[2], q[2] + 1>>] :
        q \in {r \in Times \X Times : r[2] > r[1] + 1 /\ r[2] + 1 <= MaxTime}}

\* the tick counts of the buckets from the first tick to the last one
BucketCounts(t0) ==
    {c \in UNION {[1..k -> 0..1] : k \in 1..(MaxTime - t0 + 1)} :
        c[1] > 0 /\ c[Len(c)] > 0}

\* pd.to_datetime(text).time(): a time of day and its text are the same number
ToTime(text) == text

\* lines 68-80 and 109: the fields of a new instance
NewChecker(is_real, seed, end1_str, start2_str) ==
    [is_real |-> is_real,
     session1_end_time_str |-> end1_str,
     session2_start_time_str |-> start2_str,
     session1_end_time |-> IF end1_str = <<>> THEN <<>> ELSE <<ToTime(end1_str[1])>>,
     session2_start_time |-> IF start2_str = <<>> THEN <<>> ELSE <<ToTime(start2_str[1])>>,
     prng |-> SeedState(seed),
     df |-> <<>>,
     out |-> NoOp]

\* session1_end_time_str, session2_start_time_str: None, or a time given
GivenTimes == {2, 4}
OptionalTimes == {<<>>} \cup {<<t>> : t \in GivenTimes}

InitIngest ==
    \E is_real \in BOOLEAN, seed \in IngestSeeds,
       end1_str \in OptionalTimes, start2_str \in OptionalTimes :
        checker = NewChecker(is_real, seed, end1_str, start2_str)

IdleIngest == checker = <<>>

IngestResampleArt ==
    /\ ~checker.is_real
    /\ \E n1 \in SessionSizes, n2 \in SessionSizes, tables \in TableIndexes :
          checker' = ResampleArt(checker, [n1 |-> n1, n2 |-> n2], tables)
    /\ UNCHANGED <<resampleVars, estimatorVars, hillVars, twins, kurt, buffer>>

IngestResampleReal ==
    /\ checker.is_real
    /\ \E t0 \in Times : \E counts \in BucketCounts(t0) :
          checker' = ResampleReal(checker, t0, counts)
    /\ UNCHANGED <<resampleVars, estimatorVars, hillVars, twins, kurt, buffer>>

\* _read_ohlcv_dfs: a frame read from an OHLCV csv file
IngestReadOhlcv ==
    /\ \E f \in OhlcvFrames :
          checker' = [checker EXCEPT !.df = <<f>>,
                                     !.out = [NoOp EXCEPT !.op = "_read_ohlcv_dfs",
                                                          !.changed = TRUE]]
    /\ UNCHANGED <<resampleVars, estimatorVars, hillVars, twins, kurt, buffer>>

IngestPreprocess ==
    /\ checker.df # <<>>
    /\ LET d == Preprocess(checker.df[1], checker.session1_end_time,
                           checker.session2_start_time)
       IN  checker' = [checker EXCEPT
                          !.df = <<d>>,
                          !.out = [NoOp EXCEPT !.op = "preprocess_ohlcv_df",
                                               !.changed = (d # checker.df[1])]]
    /\ UNCHANGED <<resampleVars, estimatorVars, hillVars, twins, kurt, buffer>>

NextIngest ==
    \/ IngestResampleArt
    \/ IngestResampleReal
    \/ IngestReadOhlcv
    \/ IngestPreprocess

\* the objects of the other specifications, at rest
IdleObjects == IdleIngest /\ IdleSeed /\ IdleKurtosis /\ IdleBuffer

----------------------------------------------------------------------------
(* One StylizedFactsChecker instance and the calls made on it *)

\* lines 71-109: the frames are loaded, self.return_arr is None.
InitEstimators ==
    /\ ohlcv_dfs \in Batches
    /\ return_arr = <<>>
    /\ calc_count = 0
    /\ last = NoOutcome

IdleEstimators ==
    /\ ohlcv_dfs = <<>>
    /\ return_arr = <<>>
    /\ calc_count = 0
    /\ last = NoOutcome

\* the assignments one call makes; each action evaluates its call once (res)
Apply(r) ==
    /\ return_arr' = r.ra
    /\ calc_count' = r.cnt
    /\ last' = r.out
    /\ UNCHANGED <<ohlcv_dfs, resampleVars, hillVars, objectVars>>

CheckKurtosis ==
    \E res \in {check_kurtosis(ohlcv_dfs, return_arr, calc_count)} : Apply(res)

CheckHillIndex ==
    \E c \in CutOffs :
        \E res \in {check_hill_index(ohlcv_dfs, return_arr, calc_count, c[1], c[2])} : Apply(res)

CheckAutocorrelation ==
    \E lags \in LagLists :
        \E res \in {check_autocorrelation(ohlcv_dfs, return_arr, calc_count, lags)} : Apply(res)

CheckVolumeVolatilityCorrelation ==
    \E res \in {check_volume_volatility_correlation(ohlcv_dfs, return_arr, calc_count)} : Apply(res)

PlotCcdf ==
    \E draw_idx \in 0..Len(ohlcv_dfs) :
        \E res \in {plot_ccdf(ohlcv_dfs, return_arr, calc_count, draw_idx)} : Apply(res)

\* _is_stacking_possible(self.ohlcv_dfs, colname) called on its own
IsStackingPossibleCall ==
    \E colname \in {"close", "volume"} :
        LET r == IsStackingPossible(ohlcv_dfs, colname)
        IN  /\ last' = [NoOutcome EXCEPT !.op = "_is_stacking_possible",
                            !.colname = colname, !.raised = r.raised,
                            !.verdict = (r.raised = "none" /\ r.val)]
            /\ UNCHANGED <<ohlcv_dfs, return_arr, calc_count, resampleVars, hillVars,
                           objectVars>>

Init == IdleResample /\ InitEstimators /\ IdleHill /\ IdleObjects

Next ==
    \/ CheckKurtosis
    \/ CheckHillIndex
    \/ CheckAutocorrelation
    \/ CheckVolumeVolatilityCorrelation
    \/ PlotCcdf
    \/ IsStackingPossibleCall

Spec == Init /\ [][Next]_vars

\* The homogeneity gate on its own: the batches of Spec, the gate called
\* directly and through the estimator that stacks the close column first.
NextGate ==
    \/ IsStackingPossibleCall
    \/ CheckKurtosis

SpecGate == Init /\ [][NextGate]_vars

NextResample == ResampleArtPerSession

\* a session being resampled; no checker instance or tail estimate in play
InitSession == InitResample /\ IdleEstimators /\ IdleHill /\ IdleObjects

SpecResample == InitSession /\ [][NextResample]_vars

\* one direct call of _calc_hill_indices on an arbitrary array
InitHillCall == IdleResample /\ IdleEstimators /\ InitHill /\ IdleObjects

SpecHill == InitHillCall /\ [][NextHill]_vars

\* one direct call of _calc_kurtosis on an arbitrary array
InitKurtosisCall ==
    /\ IdleResample /\ IdleEstimators /\ IdleHill
    /\ InitKurtosis /\ IdleIngest /\ IdleSeed /\ IdleBuffer

SpecKurtosis == InitKurtosisCall /\ [][NextKurtosis]_vars

\* one RolloutBuffer4IPPO and the calls made on it
InitBufferRun ==
    /\ IdleResample /\ IdleEstimators /\ IdleHill
    /\ InitBuffer /\ IdleIngest /\ IdleSeed /\ IdleKurtosis

SpecBuffer == InitBufferRun /\ [][NextBuffer]_vars

\* two instances with one seed
InitSeedRun ==
    /\ IdleResample /\ IdleEstimators /\ IdleHill
    /\ InitSeed /\ IdleIngest /\ IdleKurtosis /\ IdleBuffer

SpecSeed == InitSeedRun /\ [][NextSeed]_vars

\* one instance ingesting tick files and OHLCV files
InitIngestRun ==
    /\ IdleResample /\ IdleEstimators /\ IdleHill
    /\ InitIngest /\ IdleSeed /\ IdleKurtosis /\ IdleBuffer

SpecIngest == InitIngestRun /\ [][NextIngest]_vars

----------------------------------------------------------------------------
(* Claims about _resample_art_per_session *)

\* the bars whose slice holds the event at position e
BarsCovering(e) ==
    {i \in 1..Len(session_bars) : session_bars[i].first <= e /\ e < session_bars[i].stop}

NumEventsTotal == SumSeq([i \in 1..Len(session_bars) |-> session_bars[i].num_events])

\* C1: for a cumulative-proportion curve (ending at 1), the bars' num_events
\* sum to the session's event count and every event lies in exactly one bar.
C1_ResampleExhaustive ==
    (rpc = "done" /\ curve[Len(curve)] = CurveDen) =>
        /\ NumEventsTotal = session_len
        /\ \A e \in 0..(session_len - 1) : Cardinality(BarsCovering(e)) = 1

\* C2: the cut points are a non-decreasing sequence of integers, each between
\* 0 and the session's event count, for every session size.
C2_CutPointsMonotoneInRange ==
    rpc = "done" =>
        /\ IsNonDecreasing(cumsum_transactions)
        /\ \A i \in 1..Len(cumsum_transactions) :
              0 <= cumsum_transactions[i] /\ cumsum_transactions[i] <= session_len

----------------------------------------------------------------------------
(* Claims about the homogeneity gate, the returns and the estimators *)

NumSeries == Len(ohlcv_dfs)

AllHaveColumn(dfs, colname) == \A i \in 1..Len(dfs) : HasColumn(dfs[i], colname)

EqualLengths(dfs) ==
    \A i, j \in 1..Len(dfs) : Len(dfs[i].volume) = Len(dfs[j].volume)

MissingIn(df, colname) ==
    Cardinality({t \in 1..Len(Column(df, colname)) : Column(df, colname)[t] = NaN})

EqualMissing(dfs, colname) ==
    \A i, j \in 1..Len(dfs) : MissingIn(dfs[i], colname) = MissingIn(dfs[j], colname)

\* C3: _is_stacking_possible returns true exactly when the column exists in
\* every sequence, all lengths are equal and all counts of missing values in
\* the column are equal, and it never raises.
C3_StackingIffThreeConditions ==
    last.op = "_is_stacking_possible" =>
        /\ last.raised = "none"
        /\ last.verdict <=>
              /\ AllHaveColumn(ohlcv_dfs, last.colname)
              /\ EqualLengths(ohlcv_dfs)
              /\ EqualMissing(ohlcv_dfs, last.colname)

\* a returned false on frames of equal length of which one lacks the column
C3_Witness ==
    /\ last.op = "_is_stacking_possible"
    /\ last.colname = "close"
    /\ NumSeries = 2
    /\ ~AllHaveColumn(ohlcv_dfs, "close")
    /\ EqualLengths(ohlcv_dfs)
    /\ Len(ohlcv_dfs[1].volume) > 0
    /\ ~last.verdict

\* C4: self.return_arr is unset at creation; it is assigned only when unset,
\* once assigned it never changes, a call on the batched path that gets past
\* the return computation leaves it assigned, and a call that finds it
\* assigned reuses it.
C4_ReturnArrComputedOnce ==
    /\ return_arr = <<>> /\ calc_count = 0
    /\ [][/\ return_arr # <<>> => return_arr' = return_arr
          /\ calc_count' \in {calc_count, calc_count + 1}
          /\ calc_count' = calc_count + 1 <=> (return_arr = <<>> /\ return_arr' # <<>>)
          /\ (last'.path = "batch" /\ last'.raised # "AssertionError") => return_arr' # <<>>
          /\ (last'.path = "batch" /\ return_arr # <<>>) => last'.reused
         ]_vars

\* a later call served from the stored array
C4_Witness ==
    /\ last.op = "check_hill_index"
    /\ last.path = "batch"
    /\ last.reused
    /\ calc_count = 1
    /\ NumSeries = 2

DefinedPricesPositive(dfs) ==
    \A i \in 1..Len(dfs) : \A t \in 1..Len(dfs[i].close) :
        dfs[i].close[t] # NaN => dfs[i].close[t] > 0

\* every frame has a close column, and lengths or missing-close counts differ
Heterogeneous(dfs) ==
    /\ AllHaveColumn(dfs, "close")
    /\ ~(EqualLengths(dfs) /\ EqualMissing(dfs, "close"))

EveryFrameHasAPrice(dfs) ==
    \A i \in 1..Len(dfs) : \E t \in 1..Len(dfs[i].close) : dfs[i].close[t] # NaN

\* C5: on a heterogeneous batch of positive prices (every series with at
\* least one defined close) check_kurtosis, check_autocorrelation and
\* check_volume_volatility_correlation warn, take the per-series path and
\* return without raising; check_hill_index does so too, but for the errors
\* of the tail estimate itself.
C5_HeterogeneousBatchNotAnError ==
    (/\ Heterogeneous(ohlcv_dfs)
     /\ DefinedPricesPositive(ohlcv_dfs)
     /\ EveryFrameHasAPrice(ohlcv_dfs)
     /\ last.op \in {"check_kurtosis", "check_hill_index", "check_autocorrelation",
                     "check_volume_volatility_correlation"}) =>
        /\ last.path = "fallback"
        /\ last.warned
        /\ IF last.op = "check_hill_index"
           THEN last.raised \in {"none", "ValueError", "ZeroDivisionError"}
           ELSE last.raised = "none"

\* C6: each per-series estimator returns arrays of shape (N, 1) on both
\* paths (stated for series of at least two bars with all closes defined).
C6_PerSeriesShape ==
    (/\ \A i \in 1..NumSeries : ohlcv_dfs[i].has_close /\ Len(ohlcv_dfs[i].close) >= 2
     /\ \A i \in 1..NumSeries : \A t \in 1..Len(ohlcv_dfs[i].close) : ohlcv_dfs[i].close[t] > 0
     /\ last.op \in {"check_kurtosis", "check_autocorrelation",
                     "check_volume_volatility_correlation"}
     /\ last.path \in {"batch", "fallback"}
     /\ last.raised = "none") =>
        /\ Len(last.shapes) >= 1
        /\ \A k \in 1..Len(last.shapes) : last.shapes[k] = <<NumSeries, 1>>

\* the returns of series i, counted and placed independently of the code
SeriesPrices(i) == SelectSeq(ohlcv_dfs[i].close, LAMBDA x : x # NaN)
SeriesReturnCount(i) == IF Len(SeriesPrices(i)) = 0 THEN 0 ELSE Len(SeriesPrices(i)) - 1
SeriesOffset(i) == SumSeq([j \in 1..(i - 1) |-> SeriesReturnCount(j)])

\* C7: the sample check_hill_index hands to _calc_both_sides_hill_indices is
\* one row holding every return of every series once, in order, and each of
\* the three results has shape (1, 1).
C7_HillPoolsAllSeries ==
    (last.op = "check_hill_index" /\ last.path \in {"batch", "fallback"}
        /\ last.raised \notin {"AssertionError", "KeyError"}) =>
        /\ Len(last.sample) = 1
        /\ Len(last.sample[1]) = SeriesOffset(NumSeries + 1)
        /\ \A i \in 1..NumSeries : \A t \in 1..SeriesReturnCount(i) :
              last.sample[1][SeriesOffset(i) + t] =
                  LnMilli(SeriesPrices(i)[t + 1]) - LnMilli(SeriesPrices(i)[t]) + EpsUnit
        /\ last.raised = "none" => last.shapes = <<<<1, 1>>, <<1, 1>>, <<1, 1>>>>

\* two series pooled on the per-series path, the estimate returned
C7_Witness ==
    /\ last.op = "check_hill_index"
    /\ last.path = "fallback"
    /\ last.raised = "none"
    /\ NumSeries = 2
    /\ SeriesReturnCount(1) >= 1
    /\ SeriesReturnCount(2) >= 1

NoMissingClose(dfs) ==
    \A i \in 1..Len(dfs) : \A t \in 1..Len(dfs[i].close) : dfs[i].close[t] # NaN

\* C9: for equal-length, all-positive price sequences without missing
\* prices, row i of the batched return array, of shape (N, L-1), equals the
\* per-series return array of series i, of shape (1, L-1), element by element.
C9_BatchedEqualsPerSeries ==
    (return_arr # <<>> /\ NoMissingClose(ohlcv_dfs)) =>
        LET L == Len(ohlcv_dfs[1].close)
            cols == IF L = 0 THEN 0 ELSE L - 1
        IN  /\ Shape(return_arr[1]) = <<NumSeries, cols>>
            /\ \A i \in 1..NumSeries :
                  LET per == CalcReturnArrFromDf(ohlcv_dfs[i], "close")
                  IN  /\ per.raised = "none"
                      /\ Shape(per.val) = <<1, cols>>
                      /\ \A t \in 1..cols : return_arr[1][i][t] = per.val[1][t]

C9_Witness ==
    /\ return_arr # <<>>
    /\ NoMissingClose(ohlcv_dfs)
    /\ NumSeries = 2
    /\ Len(ohlcv_dfs[1].close) = 3
    /\ ohlcv_dfs[1].close # ohlcv_dfs[2].close

HasNonPositivePrice(df) ==
    df.has_close /\ \E t \in 1..Len(df.close) : df.close[t] # NaN /\ df.close[t] <= 0

\* C10: when a defined price is <= 0, _calc_return_arr_from_dfs (the batched
\* path) and _calc_return_arr_from_df (the per-series paths) fail instead of
\* returning an array, and self.return_arr stays unset.
C10_NonPositivePriceFails ==
    (\E i \in 1..NumSeries : HasNonPositivePrice(ohlcv_dfs[i])) =>
        /\ return_arr = <<>> /\ calc_count = 0
        /\ last.path = "batch" => last.raised = "AssertionError"
        /\ last.path = "fallback" => last.raised # "none"
        /\ (last.path = "single" /\ HasNonPositivePrice(ohlcv_dfs[last.draw_idx])) =>
              last.raised = "AssertionError" /\ last.sample = <<>>
        /\ (last.path = "fallback"
              /\ \A i \in 1..NumSeries : ohlcv_dfs[i].has_close
              /\ last.op \in {"check_kurtosis", "check_hill_index",
                              "check_autocorrelation", "plot_ccdf"}) =>
              last.raised = "AssertionError"

C10_Witness ==
    /\ \E i \in 1..NumSeries : HasNonPositivePrice(ohlcv_dfs[i])
    /\ NumSeries = 2
    /\ last.path = "batch"
    /\ last.raised = "AssertionError"
    /\ return_arr = <<>>

----------------------------------------------------------------------------
(* Claims about _calc_hill_indices *)

HillSorted ==
    \A i \in 1..Len(hill_in.arr) : \A t \in 1..(Len(hill_in.arr[i]) - 1) :
        hill_in.arr[i][t] <= hill_in.arr[i][t + 1]

\* the top cut_off_th fraction of the columns
HillTailColumns ==
    LET ncol == Len(hill_in.arr[1])
    IN  {t \in 1..ncol : t > (ncol * (hill_in.cut[2] - hill_in.cut[1])) \div hill_in.cut[2]}

HillTailHasNonPositive ==
    \E i \in 1..Len(hill_in.arr) : \E t \in HillTailColumns : hill_in.arr[i][t] <= 0

----------------------------------------------------------------------------
(* Claims about _calc_kurtosis *)

KurtShape == Shape(kurt.in.rows)

----------------------------------------------------------------------------
(* Claims about RolloutBuffer4IPPO *)

\* the six cells of slot t of agent a
StoredSlot(b, t, a) ==
    <<b.obses[t][a], b.actions[t][a], b.rewards[t][a], b.dones[t][a],
      b.log_probs[t][a], b.next_obses[t][a]>>

\* C19: while an agent is full (it has stored buffer_size experiences and
\* get() has not reset the buffer), an append leaves every stored slot of
\* that agent unchanged; an append for an agent that is not full is stored
\* at its next index.
C19_FullAgentSlotsFrozen ==
    [][\A a \in AgentsOf(buffer) :
          /\ (~buffer.is_storing_dic[a] /\ ~buffer'.is_storing_dic[a]) =>
                \A t \in SlotsOf(buffer) : StoredSlot(buffer', t, a) = StoredSlot(buffer, t, a)
          /\ (buffer.is_storing_dic[a] /\ buffer'.next_idx_dic[a] # buffer.next_idx_dic[a]) =>
                buffer'.obses[buffer.next_idx_dic[a]][a] \in Obs
      ]_vars

----------------------------------------------------------------------------
(* Claims about the random stream *)

\* the (file, session) steps both instances have completed
CommonSteps == 1..Min(Len(twins.out[1]), Len(twins.out[2]))

\* C16: two instances built with the same seed and resampling the same
\* files choose the same column at every (file, session) step and produce
\* the same bars; every per-session resampling is one choice from the
\* instance's stream (two per file).
C16_SameSeedSameCurves ==
    /\ \A k \in CommonSteps :
          /\ twins.out[1][k].col = twins.out[2][k].col
          /\ twins.out[1][k].bars = twins.out[2][k].bars
    /\ \A i \in Instances :
          /\ twins.draws[i] = 2 * twins.done[i]
          /\ Len(twins.out[i]) = twins.draws[i]

\* both instances have resampled two files from a table of several columns,
\* and the choices made along the way differ from step to step
C16_Witness ==
    /\ \A i \in Instances : twins.done[i] = 2
    /\ twins.widths[1] > 1
    /\ \E j, k \in CommonSteps : twins.out[1][j].col # twins.out[1][k].col


----------------------------------------------------------------------------
(* Claims about the session boundaries and the ingested frames *)

\* the current frame of the instance, when it has one
HasFrame == checker.df # <<>>
Frame == checker.df[1]
Rows(df) == 1..Len(df.index)

\* the derived columns scoped to session 1 and to session 2
Session1Columns == {"session1_scaled_volume", "session1_scaled_num_events"}
Session2Columns == {"session2_scaled_volume", "session2_scaled_num_events"}

\* C11: a boundary given to the constructor is the instance's boundary and
\* _resample_art never overwrites it; a boundary not given is inferred by
\* the first _resample_art call (session 1's last index, session 2's first
\* index) and no later call changes it; no other call sets a boundary; and
\* preprocess_ohlcv_df adds no column scoped to a session whose boundary is
\* unset.
C11_BoundaryResolution ==
    /\ [](/\ checker.session1_end_time_str # <<>> =>
               checker.session1_end_time = <<ToTime(checker.session1_end_time_str[1])>>
          /\ checker.session2_start_time_str # <<>> =>
               checker.session2_start_time = <<ToTime(checker.session2_start_time_str[1])>>)
    /\ [][/\ checker.session1_end_time # <<>> =>
                checker'.session1_end_time = checker.session1_end_time
          /\ checker.session2_start_time # <<>> =>
                checker'.session2_start_time = checker.session2_start_time
          /\ (checker.session1_end_time = <<>> /\ checker'.out.op = "_resample_art") =>
                checker'.session1_end_time =
                    <<checker'.out.idx1[Len(checker'.out.idx1)]>>
          /\ (checker.session2_start_time = <<>> /\ checker'.out.op = "_resample_art") =>
                checker'.session2_start_time = <<checker'.out.idx2[1]>>
          /\ (checker.session1_end_time = <<>> /\ checker'.out.op # "_resample_art") =>
                checker'.session1_end_time = <<>>
          /\ (checker.session2_start_time = <<>> /\ checker'.out.op # "_resample_art") =>
                checker'.session2_start_time = <<>>
          /\ (checker'.out.op = "preprocess_ohlcv_df" /\ checker.session1_end_time = <<>>) =>
                DOMAIN checker'.df[1].derived \cap Session1Columns = {}
          /\ (checker'.out.op = "preprocess_ohlcv_df" /\ checker.session2_start_time = <<>>) =>
                DOMAIN checker'.df[1].derived \cap Session2Columns = {}
         ]_vars

\* a synthetic file was resampled by an instance built with the session-2
\* start only: the session-1 end was inferred from the table's last index,
\* and the given session-2 start stands although the table begins elsewhere
C11_Witness ==
    /\ checker.out.op = "_resample_art"
    /\ checker.session1_end_time_str = <<>>
    /\ checker.session2_start_time_str # <<>>
    /\ checker.session1_end_time = <<checker.out.idx1[Len(checker.out.idx1)]>>
    /\ checker.session2_start_time = <<ToTime(checker.session2_start_time_str[1])>>
    /\ checker.session2_start_time # <<checker.out.idx2[1]>>


\* a tick-resampling call has just returned a frame
Resampled ==
    /\ HasFrame
    /\ checker.out.op \in {"_resample_real", "_resample_art"}
    /\ checker.out.raised = "none"

\* the latest member of a set of positions
LastOf(S) == CHOOSE j \in S : \A k \in S : k <= j

\* the non-empty bars of a frame before row i, and up to row i
NonEmptyBefore(df, i) == {j \in 1..(i - 1) : df.num_events[j] > 0}
NonEmptyUpTo(df, i) == {j \in 1..i : df.num_events[j] > 0}

\* the non-empty buckets of the cadence before the time of row i of the
\* frame _resample_real returned
BucketsBefore(df, i) ==
    {k \in 1..Len(checker.out.counts) :
        /\ checker.out.counts[k] > 0
        /\ checker.out.t0 + k - 1 < df.index[i]}

\* an empty bar: no price but the close, no volume
EmptyBarShape(df, i) ==
    /\ df.open[i] = NaN
    /\ df.high[i] = NaN
    /\ df.low[i] = NaN
    /\ df.volume[i] = 0

\* C12 as stated: in a frame returned by _resample_real or _resample_art,
\* close is defined from the first non-empty bar on, and an empty bar has
\* no open/high/low, zero volume and num_events, and the close of the
\* nearest earlier non-empty bar of the returned frame.
C12_EmptyBarClosesFromReturnedBars ==
    Resampled =>
        \A i \in Rows(Frame) :
            /\ NonEmptyUpTo(Frame, i) # {} => Frame.close[i] # NaN
            /\ Frame.num_events[i] = 0 =>
                  /\ EmptyBarShape(Frame, i)
                  /\ NonEmptyBefore(Frame, i) # {} =>
                        Frame.close[i] = Frame.close[LastOf(NonEmptyBefore(Frame, i))]

\* C12, amended: as above, except that in a frame returned by
\* _resample_real an empty bar's close is the close of the nearest earlier
\* non-empty bucket of the cadence, whether or not the session filter kept
\* that bucket in the returned frame (and it is undefined only when there
\* is no such bucket).
C12_EmptyBarClosesFromBuckets ==
    Resampled =>
        \A i \in Rows(Frame) :
            /\ NonEmptyUpTo(Frame, i) # {} => Frame.close[i] # NaN
            /\ Frame.num_events[i] = 0 =>
                  /\ EmptyBarShape(Frame, i)
                  /\ (checker.out.op = "_resample_art" /\ NonEmptyBefore(Frame, i) # {}) =>
                        Frame.close[i] = Frame.close[LastOf(NonEmptyBefore(Frame, i))]
                  /\ (checker.out.op = "_resample_real" /\ BucketsBefore(Frame, i) # {}) =>
                        Frame.close[i] =
                            TickPrice(checker.out.t0 + LastOf(BucketsBefore(Frame, i)) - 1)
                  /\ (checker.out.op = "_resample_real" /\ BucketsBefore(Frame, i) = {}) =>
                        Frame.close[i] = NaN

\* _resample_real returned an empty bar whose close comes from a bucket of
\* the break between the sessions, which the filter removed
C12_Witness ==
    /\ Resampled
    /\ checker.out.op = "_resample_real"
    /\ \E i \in Rows(Frame) :
          /\ Frame.num_events[i] = 0
          /\ NonEmptyBefore(Frame, i) # {}
          /\ Frame.close[i] # NaN
          /\ Frame.close[i] # Frame.close[LastOf(NonEmptyBefore(Frame, i))]


\* preprocess_ohlcv_df has just returned the current frame
Preprocessed == HasFrame /\ checker.out.op = "preprocess_ohlcv_df"

\* C13: with the session boundaries unchanged, a second call of
\* preprocess_ohlcv_df on a frame adds no column and changes no value: the
\* frame after two calls is the frame after one call.
C13_PreprocessIdempotent ==
    /\ [](HasFrame =>
            LET once == Preprocess(Frame, checker.session1_end_time,
                                   checker.session2_start_time)
            IN  Preprocess(once, checker.session1_end_time,
                           checker.session2_start_time) = once)
    /\ [][(checker.out.op = "preprocess_ohlcv_df" /\ checker'.out.op = "preprocess_ohlcv_df") =>
              /\ checker'.df = checker.df
              /\ ~checker'.out.changed]_vars

\* preprocess_ohlcv_df was called on a frame that already carried the
\* columns of both sessions, and returned it as it was
C13_Witness ==
    /\ Preprocessed
    /\ ~checker.out.changed
    /\ Len(Frame.index) > 1
    /\ Session1Columns \cup Session2Columns \subseteq DOMAIN Frame.derived

\* |x|
Magnitude(x) == IF x < 0 THEN -x ELSE x

\* the sum of a column over a set of rows
SumOver(col, rows) == SumSeq([i \in 1..Len(col) |-> IF i \in rows THEN col[i] ELSE 0])

\* cell by cell, scaled is raw over the sum of raw (to the nearest unit),
\* and the cells of scaled add up to one (each cell within half a unit)
ScaledBy(scaled, raw) ==
    /\ \A i \in 1..Len(raw) :
          /\ scaled[i] # NaN
          /\ 2 * Magnitude(scaled[i] * SumSeq(raw) - raw[i] * Unit) <= SumSeq(raw)
    /\ 2 * Magnitude(SumSeq(scaled) - Unit) <= Len(raw)

\* C14: after preprocess_ohlcv_df, a frame whose volume sum is positive has
\* scaled_volume = volume / sum(volume) on every bar, summing to 1; and
\* likewise scaled_num_events with respect to num_events.
C14_ScaledColumnsNormalized ==
    Preprocessed =>
        /\ SumSeq(Frame.volume) > 0 =>
              ScaledBy(Frame.derived["scaled_volume"], Frame.volume)
        /\ SumSeq(Frame.num_events) > 0 =>
              ScaledBy(Frame.derived["scaled_num_events"], Frame.num_events)

\* a frame of three bars of different positive volumes was preprocessed
C14_Witness ==
    /\ Preprocessed
    /\ Len(Frame.index) = 3
    /\ \A i \in Rows(Frame) : Frame.volume[i] > 0
    /\ Frame.volume[1] # Frame.volume[2]
    /\ Frame.derived["scaled_volume"][1] # Frame.derived["scaled_volume"][2]


\* the bars of the frame inside session 1 and inside session 2, for the
\* instance's boundaries
Inside1(df) == {i \in Rows(df) : df.index[i] <= checker.session1_end_time[1]}
Inside2(df) == {i \in Rows(df) : checker.session2_start_time[1] <= df.index[i]}

\* a session column is 0 outside the session and adds up to one inside it
ZeroOutsideOneInside(col, inside) ==
    /\ \A i \in 1..Len(col) : i \notin inside => col[i] = 0
    /\ \A i \in inside : col[i] # NaN
    /\ 2 * Magnitude(SumOver(col, inside) - Unit) <= Len(col)

\* a session column is undefined on every bar
UndefinedEverywhere(col) == \A i \in 1..Len(col) : col[i] = NaN

\* C15 as stated: after preprocess_ohlcv_df with the boundaries known, each
\* of the four session columns is 0 on every bar outside its session and
\* sums to 1 over the bars inside it.
C15_SessionColumnsSumToOne ==
    Preprocessed =>
        /\ checker.session1_end_time # <<>> =>
              \A name \in Session1Columns :
                  ZeroOutsideOneInside(Frame.derived[name], Inside1(Frame))
        /\ checker.session2_start_time # <<>> =>
              \A name \in Session2Columns :
                  ZeroOutsideOneInside(Frame.derived[name], Inside2(Frame))

\* the column a session column is taken from
RawOf(df, name) ==
    IF name \in {"session1_scaled_volume", "session2_scaled_volume"}
    THEN df.volume ELSE df.num_events

\* C15, amended: a session column is 0 outside its session and sums to 1
\* inside it whenever the bars inside the session have a positive total of
\* the raw column; when that total is 0 (no bar inside the session, or only
\* empty ones) the column is undefined on every bar of the frame.
C15_SessionColumnsSumToOneIfTraded ==
    Preprocessed =>
        /\ checker.session1_end_time # <<>> =>
              \A name \in Session1Columns :
                  IF SumOver(RawOf(Frame, name), Inside1(Frame)) > 0
                  THEN ZeroOutsideOneInside(Frame.derived[name], Inside1(Frame))
                  ELSE UndefinedEverywhere(Frame.derived[name])
        /\ checker.session2_start_time # <<>> =>
              \A name \in Session2Columns :
                  IF SumOver(RawOf(Frame, name), Inside2(Frame)) > 0
                  THEN ZeroOutsideOneInside(Frame.derived[name], Inside2(Frame))
                  ELSE UndefinedEverywhere(Frame.derived[name])

\* a preprocessed frame with trading in both sessions and a bar of positive
\* volume outside session 1, whose session-1 share is therefore set to 0
C15_Witness ==
    /\ Preprocessed
    /\ checker.session1_end_time # <<>>
    /\ checker.session2_start_time # <<>>
    /\ SumOver(Frame.volume, Inside1(Frame)) > 0
    /\ SumOver(Frame.volume, Inside2(Frame)) > 0
    /\ \E i \in Rows(Frame) :
          /\ i \notin Inside1(Frame)
          /\ Frame.volume[i] > 0
          /\ Frame.derived["session1_scaled_volume"][i] = 0

\* C18: preprocess_ohlcv_df leaves the index, the row count and the values
\* of open, high, low, close, volume and num_events as they were, and keeps
\* every derived column the frame had; it only adds derived columns.
C18_PreprocessOnlyAddsColumns ==
    [][checker'.out.op = "preprocess_ohlcv_df" =>
          /\ checker'.df[1].index = checker.df[1].index
          /\ checker'.df[1].open = checker.df[1].open
          /\ checker'.df[1].high = checker.df[1].high
          /\ checker'.df[1].low = checker.df[1].low
          /\ checker'.df[1].close = checker.df[1].close
          /\ checker'.df[1].volume = checker.df[1].volume
          /\ checker'.df[1].num_events = checker.df[1].num_events
          /\ \A name \in DOMAIN checker.df[1].derived :
                /\ name \in DOMAIN checker'.df[1].derived
                /\ checker'.df[1].derived[name] = checker.df[1].derived[name]
      ]_vars

\* preprocess_ohlcv_df added the session columns to a frame of several
\* bars with trading
C18_Witness ==
    /\ Preprocessed
    /\ checker.out.changed
    /\ Len(Frame.index) > 1
    /\ SumSeq(Frame.volume) > 0
    /\ Session1Columns \subseteq DOMAIN Frame.derived


----------------------------------------------------------------------------
(* Claims about stacking series whose missing values differ in position *)

\* two frames of the batch miss values of the column at different bars
MissingElsewhere(dfs, colname) ==
    \E i, j \in 1..Len(dfs) : \E t \in 1..Len(Column(dfs[i], colname)) :
        /\ Column(dfs[i], colname)[t] = NaN
        /\ Column(dfs[j], colname)[t] # NaN

\* the batch passes for homogeneous by its counts although not by positions
SameCountsOtherPositions(dfs, colname) ==
    /\ AllHaveColumn(dfs, colname)
    /\ EqualLengths(dfs)
    /\ EqualMissing(dfs, colname)
    /\ MissingElsewhere(dfs, colname)

\* some column of the stacked array holds cells of different bar positions,
\* each row being the kept cells of its series in order
Misaligned(dfs, colname, stacked) ==
    /\ \A i \in 1..Len(dfs) : \A k \in 1..Len(stacked[i]) :
          stacked[i][k] = Column(dfs[i], colname)[KeptPositions(Column(dfs[i], colname))[k]]
    /\ \E i, j \in 1..Len(dfs) : \E k \in 1..Len(stacked[i]) :
          KeptPositions(Column(dfs[i], colname))[k] #
              KeptPositions(Column(dfs[j], colname))[k]

\* C20: for series of equal length with equally many missing values of a
\* column at different positions, _is_stacking_possible returns true, and
\* _stack_dfs raises nothing and returns an array in which some column
\* holds values of different bar positions; check_kurtosis takes the
\* batched path on such a batch without a warning.
C20_SameCountStacksMisaligned ==
    /\ (last.op = "_is_stacking_possible" /\ last.raised = "none"
        /\ SameCountsOtherPositions(ohlcv_dfs, last.colname)) =>
            /\ last.verdict
            /\ LET stacked == StackDfs(ohlcv_dfs, last.colname)
               IN  /\ stacked.raised = "none"
                   /\ Shape(stacked.val) =
                         <<NumSeries, Len(DropNa(Column(ohlcv_dfs[1], last.colname)))>>
                   /\ Misaligned(ohlcv_dfs, last.colname, stacked.val)
    /\ (last.op = "check_kurtosis" /\ SameCountsOtherPositions(ohlcv_dfs, "close")) =>
            /\ last.path = "batch"
            /\ ~last.warned

\* the gate has answered true for two series of three bars, one missing its
\* first close and the other its second
C20_Witness ==
    /\ last.op = "_is_stacking_possible"
    /\ last.colname = "close"
    /\ last.verdict
    /\ NumSeries = 2
    /\ SameCountsOtherPositions(ohlcv_dfs, "close")
    /\ Len(ohlcv_dfs[1].close) = 3
    /\ ohlcv_dfs[1].close[1] = NaN
    /\ ohlcv_dfs[2].close[2] = NaN


----------------------------------------------------------------------------
(* Claims about the rows check_volume_volatility_correlation correlates *)

\* C21: on both paths of check_volume_volatility_correlation, the volume
\* row passed to _calc_volume_volatility_correlation is as long as the
\* |return| row of the same series, and its element t is the volume of the
\* bar whose close is the later price of return t, for every series the
\* close-column gate accepts, missing closes included.
C21_VolumeAlignedWithReturns ==
    (last.op = "check_volume_volatility_correlation" /\ last.abs_rows # <<>>) =>
        \A i \in 1..Len(last.abs_rows) :
            /\ Len(last.vol_rows[i]) = Len(last.abs_rows[i])
            /\ \A t \in 1..Len(last.vol_rows[i]) :
                  last.vol_rows[i][t] =
                      ohlcv_dfs[i].volume[KeptPositions(ohlcv_dfs[i].close)[t + 1]]


----------------------------------------------------------------------------
(* Claims about the fill state of RolloutBuffer4IPPO, its next observations
   and get() *)

\* the append calls agent a has made since construction or the last get()
AppendsOf(b, a) == Len(b.appended[a])

\* the slots of agent a that hold a stored experience
StoredCount(b, a) == Cardinality({t \in SlotsOf(b) : b.actions[t][a] # Empty})

\* C22: is_filled() is true exactly when every agent has made at least
\* buffer_size append calls since construction or the last get(); an agent
\* never holds more than buffer_size stored experiences (it holds as many as
\* it has appended, up to buffer_size).
C22_FilledIffEveryAgentFull ==
    /\ is_filled(buffer) <=>
          \A a \in AgentsOf(buffer) : AppendsOf(buffer, a) >= buffer.buffer_size
    /\ \A a \in AgentsOf(buffer) :
          /\ StoredCount(buffer, a) <= buffer.buffer_size
          /\ StoredCount(buffer, a) = Min(AppendsOf(buffer, a), buffer.buffer_size)
          /\ buffer.is_storing_dic[a] <=> AppendsOf(buffer, a) < buffer.buffer_size

\* after a get(), both agents of a buffer of size 2 are full again, one of
\* them having appended once more than the buffer holds
C22_Witness ==
    /\ buffer.handed # <<>>
    /\ buffer.agent_num = 2
    /\ buffer.buffer_size = 2
    /\ is_filled(buffer)
    /\ AppendsOf(buffer, 0) = 3
    /\ AppendsOf(buffer, 1) = 2


\* C23: for every agent a and slot t, once a has made its (t+2)-th append
\* since the last reset, next_obses[t, a] holds the observation of that
\* append and obses[t, a] still holds the observation of the (t+1)-th
\* append; the last slot t = buffer_size - 1 included, whose next
\* observation comes with the first append after the agent is full.
C23_NextObsFollowsObs ==
    \A a \in AgentsOf(buffer) : \A t \in SlotsOf(buffer) :
        AppendsOf(buffer, a) >= t + 2 =>
            /\ buffer.next_obses[t][a] = buffer.appended[a][t + 2]
            /\ buffer.obses[t][a] = buffer.appended[a][t + 1]

\* the six fields _initialize_buffer assigns
Fields(b) ==
    [is_storing_dic |-> b.is_storing_dic, next_idx_dic |-> b.next_idx_dic,
     obses |-> b.obses, actions |-> b.actions, rewards |-> b.rewards,
     dones |-> b.dones, log_probs |-> b.log_probs, next_obses |-> b.next_obses]

\* C24: get() returns the six experience tensors and leaves the buffer as
\* constructed: every agent's next index is 0 and its storing flag true, so
\* is_filled() is false; and an append made after get() writes to tensors
\* that are not the ones get() returned.
C24_GetReturnsAndResets ==
    [][/\ buffer'.out.op = "get" =>
             /\ buffer'.out.val = <<Experiences(buffer)>>
             /\ Fields(buffer') = Fields(NewBuffer(buffer.buffer_size, buffer.agent_num))
             /\ \A a \in AgentsOf(buffer') :
                   buffer'.next_idx_dic[a] = 0 /\ buffer'.is_storing_dic[a]
             /\ ~is_filled(buffer')
             /\ buffer'.handed # <<>> /\ buffer'.handed[1] # buffer'.store
       /\ (buffer'.out.op = "append" /\ buffer.handed # <<>>) =>
             /\ buffer'.handed = buffer.handed
             /\ buffer'.store = buffer.store
             /\ buffer.handed[1] # buffer.store
      ]_vars

\* get() was called on a buffer of two agents, and an agent has appended
\* to the new tensors since
C24_Witness ==
    /\ buffer.handed # <<>>
    /\ buffer.agent_num = 2
    /\ buffer.out.op = "append"
    /\ AppendsOf(buffer, 0) = 1
    /\ buffer.obses[0][0] \in Obs

====
